---- MODULE Spec2Model ----
(***************************************************************************)
(* setup.py of opentrustregion: the build_py override CMakeBuild.run,      *)
(* which creates the build directory, drives cmake through configure and   *)
(* compile, copies the two shared libraries into the package directory     *)
(* pyopentrustregion and then runs the inherited build_py step.            *)
(*                                                                         *)
(* The filesystem is modelled by the entries the script reads or writes:   *)
(* the build directory with the two library files and CMakeCache.txt, and  *)
(* the package directory with the two library files and __init__.py.       *)
(* cmake is an external process: it runs while the script waits, writes    *)
(* inside the build directory only, and exits with some status.            *)
(* Each invocation of the script is a new process; the filesystem is what  *)
(* persists from one invocation to the next.                               *)
(***************************************************************************)
EXTENDS Integers, Sequences, FiniteSets, TLC

VARIABLES
    platform,                 \* sys.platform of the host
    ext,                      \* module global ext
    libopentrustregion_file,  \* module global
    libtestsuite_file,        \* module global
    buildKind,                \* what is at build_dir: "absent", "dir", "file"
    build,                    \* entries inside build_dir, by file name
    pkgKind,                  \* what is at package_dir/pyopentrustregion
    pkg,                      \* entries inside the package directory
    pc,                       \* position of the current invocation in run()
    failedAt,                 \* the statement that raised, "none" if none did
    configureExit,            \* exit statuses of cmake .. in this invocation
    compileExit,              \* exit statuses of cmake --build . in this one
    configureCalls,           \* times cmake .. was launched in this invocation
    compileCalls,             \* times cmake --build . was launched
    copied,                   \* the library files copied by this invocation
    superCalls,               \* times super().run() was called
    pkgAtStart,               \* pkg when this invocation started
    prevCopied                \* the library files the previous invocation copied

vars == <<platform, ext, libopentrustregion_file, libtestsuite_file,
          buildKind, build, pkgKind, pkg, pc, failedAt, configureExit,
          compileExit, configureCalls, compileCalls, copied, superCalls,
          pkgAtStart, prevCopied>>

globals == <<platform, ext, libopentrustregion_file, libtestsuite_file>>
buildFs == <<buildKind, build>>
pkgFs == <<pkgKind, pkg>>
history == <<pkgAtStart, prevCopied>>

----------------------------------------------------------------------------
\* Bounds of the model.

\* File contents are 1..MaxContent.
MaxContent == 2
\* cmake exits with a status in -1..MaxStatus (a negative status is what
\* subprocess reports for a process ended by a signal).
MaxStatus == 1

Contents == 1 .. MaxContent
Statuses == -1 .. MaxStatus
\* Values of sys.platform; "unknown" stands for every identifier the script
\* does not name and that is not linux either.
Platforms == {"darwin", "linux", "unknown"}

----------------------------------------------------------------------------
\* Filesystem entries.

\* An entry is absent, a regular file with its content, or a directory.  Of
\* a directory the model keeps the content of the one file a copy can put
\* into it (the file of the directory's own name), 0 when it has none.
\* File(NoData) is a file left incomplete by a writing that stopped: it has
\* less than any content, possibly nothing.
NoData == 0
Absent == [kind |-> "absent", data |-> NoData]
File(c) == [kind |-> "file", data |-> c]
Dir(c) == [kind |-> "dir", data |-> c]
Directory == Dir(NoData)

FileEntries == {File(c) : c \in Contents}
Entries == {Absent, Directory} \cup FileEntries

CacheName == "CMakeCache.txt"
InitName == "__init__.py"

----------------------------------------------------------------------------
\* Module level, lines 9-11.

\* Ext with the default on the other branch.
ExtDefaultDylib(p) == IF p = "linux" THEN "so" ELSE "dylib"
Ext(p) == IF p = "darwin" THEN "dylib" ELSE "so"

LibOpenTrustRegionFile(e) == "libopentrustregion." \o e
\* (The test-suite name with the suffix written out instead of shared.)
LibTestsuiteFileSo(e) == "libtestsuite.so"
LibTestsuiteFile(e) == "libtestsuite." \o e

\* Line 42, the package_data argument of setup().
package_data ==
    [pyopentrustregion |-> <<libopentrustregion_file, libtestsuite_file>>]

BuildNames == {libopentrustregion_file, libtestsuite_file, CacheName}
PkgNames == {libopentrustregion_file, libtestsuite_file, InitName}

----------------------------------------------------------------------------
\* Library calls of run().

\* os.makedirs(build_dir, exist_ok=True): the directory is created, empty,
\* when nothing is at the path and the parent lets it; an existing directory
\* is left as it is; anything else at the path raises.
\* (makedirs without exist_ok: an existing directory raises.)
makedirsNoExistOk(kind, files, denied) ==
    IF kind = "absent" /\ ~denied
    THEN [ok |-> TRUE, kind |-> "dir", files |-> [n \in DOMAIN files |-> Absent]]
    ELSE [ok |-> FALSE, kind |-> kind, files |-> files]
\* (makedirs after a removal of the tree: an existing directory is emptied.)
makedirsRecreate(kind, files, denied) ==
    IF kind \in {"absent", "dir"} /\ ~denied
    THEN [ok |-> TRUE, kind |-> "dir", files |-> [n \in DOMAIN files |-> Absent]]
    ELSE [ok |-> FALSE, kind |-> kind, files |-> files]
makedirs(kind, files, denied) ==
    CASE kind = "dir" -> [ok |-> TRUE, kind |-> "dir", files |-> files]
      [] kind = "absent" /\ ~denied ->
            [ok |-> TRUE, kind |-> "dir", files |-> [n \in DOMAIN files |-> Absent]]
      [] OTHER -> [ok |-> FALSE, kind |-> kind, files |-> files]

\* subprocess.check_call: returns when the exit status is 0, raises
\* CalledProcessError otherwise.
\* (subprocess.call returns whatever the status.)
call(status) == TRUE
\* (A check that takes only a positive status for a failure.)
checkCallPositive(status) == status <= 0
check_call(status) == status = 0

\* shutil.copy(src, dst) is copyfile followed by copymode.  The source is
\* opened first (it must be a regular file), then the destination is opened
\* for writing, which needs the destination directory and the permission to
\* write, and which empties a file that is already there; the content is
\* written; at the end the mode bits of the source are set on the
\* destination.  When dst is an existing directory the file is copied into
\* that directory, under the source's base name, and the entry at dst stays
\* a directory.  Each step after the opening of the source can raise:
\*   "open"   the destination cannot be opened: nothing is written;
\*   "write"  the writing stops (no space left): the destination is left
\*            a file that holds less than the content, possibly nothing;
\*   "chmod"  the mode cannot be set (the destination is writable but
\*            owned by someone else): the content is already in place.
Faults == {"none", "open", "write", "chmod"}

\* What is at the destination path once content c has been written there.
Written(dst, c) == IF dst.kind = "dir" THEN Dir(c) ELSE File(c)

\* (A copy that keeps a destination that is already there.)
copyIfMissing(src, dirKind, dst, fault) ==
    CASE src.kind # "file" -> [ok |-> FALSE, dst |-> dst]
      [] dirKind # "dir" -> [ok |-> FALSE, dst |-> dst]
      [] fault = "open" -> [ok |-> FALSE, dst |-> dst]
      [] dst.kind # "absent" -> [ok |-> TRUE, dst |-> dst]
      [] fault = "write" -> [ok |-> FALSE, dst |-> Written(dst, NoData)]
      [] fault = "chmod" -> [ok |-> FALSE, dst |-> Written(dst, src.data)]
      [] OTHER -> [ok |-> TRUE, dst |-> Written(dst, src.data)]
\* (A copy that skips a source that is not there.)
copyMissingOk(src, dirKind, dst, fault) ==
    CASE src.kind # "file" -> [ok |-> TRUE, dst |-> dst]
      [] dirKind # "dir" -> [ok |-> FALSE, dst |-> dst]
      [] fault = "open" -> [ok |-> FALSE, dst |-> dst]
      [] fault = "write" -> [ok |-> FALSE, dst |-> Written(dst, NoData)]
      [] fault = "chmod" -> [ok |-> FALSE, dst |-> Written(dst, src.data)]
      [] OTHER -> [ok |-> TRUE, dst |-> Written(dst, src.data)]
\* (A copy that makes the destination directory when it is missing.)
copyCreatingParent(src, dirKind, dst, fault) ==
    CASE src.kind # "file" -> [ok |-> FALSE, dst |-> dst]
      [] fault = "open" -> [ok |-> FALSE, dst |-> dst]
      [] fault = "write" -> [ok |-> FALSE, dst |-> Written(dst, NoData)]
      [] fault = "chmod" -> [ok |-> FALSE, dst |-> Written(dst, src.data)]
      [] OTHER -> [ok |-> TRUE, dst |-> Written(dst, src.data)]
copy(src, dirKind, dst, fault) ==
    CASE src.kind # "file" -> [ok |-> FALSE, dst |-> dst]
      [] dirKind # "dir" -> [ok |-> FALSE, dst |-> dst]
      [] fault = "open" -> [ok |-> FALSE, dst |-> dst]
      [] fault = "write" -> [ok |-> FALSE, dst |-> Written(dst, NoData)]
      [] fault = "chmod" -> [ok |-> FALSE, dst |-> Written(dst, src.data)]
      [] OTHER -> [ok |-> TRUE, dst |-> Written(dst, src.data)]

----------------------------------------------------------------------------
\* The state when the script starts for the first time: the globals of
\* lines 9-11 are set, run() has not begun.

InitBuild(e) ==
    LET names == {LibOpenTrustRegionFile(e), LibTestsuiteFile(e), CacheName}
    IN  \/ /\ buildKind \in {"absent", "file"}
           /\ build = [n \in names |-> Absent]
        \/ /\ buildKind = "dir"
           /\ \E old \in {Absent, File(1)} : build = [n \in names |-> old]

InitPkg(e) ==
    LET core == LibOpenTrustRegionFile(e)
        test == LibTestsuiteFile(e)
    IN  \/ /\ pkgKind = "absent"
           /\ pkg = [n \in {core, test, InitName} |-> Absent]
        \/ /\ pkgKind = "dir"
           /\ \E c, t \in Entries :
                pkg = [n \in {core, test, InitName} |->
                         IF n = core THEN c ELSE IF n = test THEN t ELSE File(1)]

Init ==
    /\ platform \in Platforms
    /\ ext = Ext(platform)
    /\ libopentrustregion_file = LibOpenTrustRegionFile(ext)
    /\ libtestsuite_file = LibTestsuiteFile(ext)
    /\ InitBuild(ext)
    /\ InitPkg(ext)
    /\ pc = "START"
    /\ failedAt = "none"
    /\ configureExit = <<>>
    /\ compileExit = <<>>
    /\ configureCalls = 0
    /\ compileCalls = 0
    /\ copied = {}
    /\ superCalls = 0
    /\ pkgAtStart = pkg
    /\ prevCopied = {}

----------------------------------------------------------------------------
\* run(), one action per statement.

counters == <<configureExit, compileExit, configureCalls, compileCalls,
              copied, superCalls>>

\* MakeDirs with the error of makedirs caught and dropped.
MakeDirsSwallow ==
    /\ pc = "START"
    /\ \E denied \in BOOLEAN :
         LET r == makedirs(buildKind, build, denied)
         IN  /\ buildKind' = r.kind
             /\ build' = r.files
             /\ pc' = "DIR_READY"
             /\ failedAt' = IF r.ok THEN "none" ELSE "makedirs"
    /\ UNCHANGED <<globals, pkgFs, counters, history>>

\* Line 19.
MakeDirs ==
    /\ pc = "START"
    /\ \E denied \in BOOLEAN :
         LET r == makedirs(buildKind, build, denied)
         IN  /\ buildKind' = r.kind
             /\ build' = r.files
             /\ pc' = IF r.ok THEN "DIR_READY" ELSE "FAILED"
             /\ failedAt' = IF r.ok THEN "none" ELSE "makedirs"
    /\ UNCHANGED <<globals, pkgFs, counters, history>>

\* Line 22, the launch of cmake ..: the process starts, or the executable
\* cannot be started and Popen raises.
ConfigureStart ==
    /\ pc = "DIR_READY"
    /\ \E started \in BOOLEAN :
         /\ configureCalls' = IF started THEN configureCalls + 1 ELSE configureCalls
         /\ pc' = IF started THEN "CONFIGURING" ELSE "FAILED"
         /\ failedAt' = IF started THEN "none" ELSE "configure"
    /\ UNCHANGED <<globals, buildFs, pkgFs, configureExit, compileExit,
                   compileCalls, copied, superCalls, history>>

\* ConfigureExit with a failing configure step tried again.
ConfigureExitRetry ==
    /\ pc = "CONFIGURING"
    /\ \E s \in Statuses, cache \in {build[CacheName], File(1)} :
         /\ build' = [build EXCEPT ![CacheName] = cache]
         /\ configureExit' = Append(configureExit, s)
         /\ pc' = IF check_call(s) THEN "CONFIGURED" ELSE "DIR_READY"
         /\ failedAt' = "none"
    /\ UNCHANGED <<globals, buildKind, pkgFs, compileExit, configureCalls,
                   compileCalls, copied, superCalls, history>>

\* Line 22, cmake .. exits: check_call returns or raises.
ConfigureExit ==
    /\ pc = "CONFIGURING"
    /\ \E s \in Statuses, cache \in {build[CacheName], File(1)} :
         /\ build' = [build EXCEPT ![CacheName] = cache]
         /\ configureExit' = Append(configureExit, s)
         /\ pc' = IF check_call(s) THEN "CONFIGURED" ELSE "FAILED"
         /\ failedAt' = IF check_call(s) THEN "none" ELSE "configure"
    /\ UNCHANGED <<globals, buildKind, pkgFs, compileExit, configureCalls,
                   compileCalls, copied, superCalls, history>>

\* Line 23, the launch of cmake --build .
CompileStart ==
    /\ pc = "CONFIGURED"
    /\ \E started \in BOOLEAN :
         /\ compileCalls' = IF started THEN compileCalls + 1 ELSE compileCalls
         /\ pc' = IF started THEN "COMPILING" ELSE "FAILED"
         /\ failedAt' = IF started THEN "none" ELSE "compile"
    /\ UNCHANGED <<globals, buildFs, pkgFs, configureExit, compileExit,
                   configureCalls, copied, superCalls, history>>

\* CompileExit with the exit status not looked at (subprocess.call).
CompileExitUnchecked ==
    /\ pc = "COMPILING"
    /\ \E s \in Statuses, core \in Entries, test \in Entries :
         /\ build' = [build EXCEPT ![libopentrustregion_file] = core,
                                   ![libtestsuite_file] = test]
         /\ compileExit' = Append(compileExit, s)
         /\ pc' = "BUILT"
         /\ failedAt' = "none"
    /\ UNCHANGED <<globals, buildKind, pkgFs, configureExit, configureCalls,
                   compileCalls, copied, superCalls, history>>

\* CompileExit with a timeout: the script stops waiting for a process that
\* has not exited.
CompileExitOrTimeout ==
    /\ pc = "COMPILING"
    /\ \/ \E s \in Statuses, core \in Entries, test \in Entries :
            /\ build' = [build EXCEPT ![libopentrustregion_file] = core,
                                      ![libtestsuite_file] = test]
            /\ compileExit' = Append(compileExit, s)
            /\ pc' = IF check_call(s) THEN "BUILT" ELSE "FAILED"
            /\ failedAt' = IF check_call(s) THEN "none" ELSE "compile"
       \/ /\ pc' = "FAILED"
          /\ failedAt' = "compile"
          /\ UNCHANGED <<build, compileExit>>
    /\ UNCHANGED <<globals, buildKind, pkgFs, configureExit, configureCalls,
                   compileCalls, copied, superCalls, history>>

\* Line 23, cmake --build . exits, having written what it did to the two
\* library files in the build directory.
CompileExit ==
    /\ pc = "COMPILING"
    /\ \E s \in Statuses, core \in Entries, test \in Entries :
         /\ build' = [build EXCEPT ![libopentrustregion_file] = core,
                                   ![libtestsuite_file] = test]
         /\ compileExit' = Append(compileExit, s)
         /\ pc' = IF check_call(s) THEN "BUILT" ELSE "FAILED"
         /\ failedAt' = IF check_call(s) THEN "none" ELSE "compile"
    /\ UNCHANGED <<globals, buildKind, pkgFs, configureExit, configureCalls,
                   compileCalls, copied, superCalls, history>>

\* CopyCore writing to another name of the package directory.
CopyCoreWrongDest ==
    /\ pc = "BUILT"
    /\ \E fault \in Faults :
         LET r == copy(build[libopentrustregion_file], pkgKind,
                       pkg[InitName], fault)
         IN  /\ pkg' = [pkg EXCEPT ![InitName] = r.dst]
             /\ copied' = IF r.ok THEN copied \cup {libopentrustregion_file}
                                  ELSE copied
             /\ pc' = IF r.ok THEN "CORE_STAGED" ELSE "FAILED"
             /\ failedAt' = IF r.ok THEN "none" ELSE "copy_core"
    /\ UNCHANGED <<globals, buildFs, pkgKind, configureExit, compileExit,
                   configureCalls, compileCalls, superCalls, history>>

\* CopyCore copying the test-suite library: the two copies in the other
\* order, the first of them.
CopyCoreTestFirst ==
    /\ pc = "BUILT"
    /\ \E fault \in Faults :
         LET r == copy(build[libtestsuite_file], pkgKind,
                       pkg[libtestsuite_file], fault)
         IN  /\ pkg' = [pkg EXCEPT ![libtestsuite_file] = r.dst]
             /\ copied' = IF r.ok THEN copied \cup {libtestsuite_file}
                                  ELSE copied
             /\ pc' = IF r.ok THEN "CORE_STAGED" ELSE "FAILED"
             /\ failedAt' = IF r.ok THEN "none" ELSE "copy_core"
    /\ UNCHANGED <<globals, buildFs, pkgKind, configureExit, compileExit,
                   configureCalls, compileCalls, superCalls, history>>

\* Lines 26-29.
CopyCore ==
    /\ pc = "BUILT"
    /\ \E fault \in Faults :
         LET r == copy(build[libopentrustregion_file], pkgKind,
                       pkg[libopentrustregion_file], fault)
         IN  /\ pkg' = [pkg EXCEPT ![libopentrustregion_file] = r.dst]
             /\ copied' = IF r.ok THEN copied \cup {libopentrustregion_file}
                                  ELSE copied
             /\ pc' = IF r.ok THEN "CORE_STAGED" ELSE "FAILED"
             /\ failedAt' = IF r.ok THEN "none" ELSE "copy_core"
    /\ UNCHANGED <<globals, buildFs, pkgKind, configureExit, compileExit,
                   configureCalls, compileCalls, superCalls, history>>

\* CopyTest with the error of the copy caught and dropped.
CopyTestSwallow ==
    /\ pc = "CORE_STAGED"
    /\ \E fault \in Faults :
         LET r == copy(build[libtestsuite_file], pkgKind,
                       pkg[libtestsuite_file], fault)
         IN  /\ pkg' = [pkg EXCEPT ![libtestsuite_file] = r.dst]
             /\ copied' = IF r.ok THEN copied \cup {libtestsuite_file}
                                  ELSE copied
             /\ pc' = "STAGED"
             /\ failedAt' = IF r.ok THEN "none" ELSE "copy_test"
    /\ UNCHANGED <<globals, buildFs, pkgKind, configureExit, compileExit,
                   configureCalls, compileCalls, superCalls, history>>

\* CopyTest reading the core library as its source.
CopyTestWrongSource ==
    /\ pc = "CORE_STAGED"
    /\ \E fault \in Faults :
         LET r == copy(build[libopentrustregion_file], pkgKind,
                       pkg[libtestsuite_file], fault)
         IN  /\ pkg' = [pkg EXCEPT ![libtestsuite_file] = r.dst]
             /\ copied' = IF r.ok THEN copied \cup {libtestsuite_file}
                                  ELSE copied
             /\ pc' = IF r.ok THEN "STAGED" ELSE "FAILED"
             /\ failedAt' = IF r.ok THEN "none" ELSE "copy_test"
    /\ UNCHANGED <<globals, buildFs, pkgKind, configureExit, compileExit,
                   configureCalls, compileCalls, superCalls, history>>

\* CopyTest undoing the first copy when the second fails.
CopyTestRollback ==
    /\ pc = "CORE_STAGED"
    /\ \E fault \in Faults :
         LET r == copy(build[libtestsuite_file], pkgKind,
                       pkg[libtestsuite_file], fault)
         IN  /\ pkg' = IF r.ok
                       THEN [pkg EXCEPT ![libtestsuite_file] = r.dst]
                       ELSE pkgAtStart
             /\ copied' = IF r.ok THEN copied \cup {libtestsuite_file}
                                  ELSE copied
             /\ pc' = IF r.ok THEN "STAGED" ELSE "FAILED"
             /\ failedAt' = IF r.ok THEN "none" ELSE "copy_test"
    /\ UNCHANGED <<globals, buildFs, pkgKind, configureExit, compileExit,
                   configureCalls, compileCalls, superCalls, history>>

\* Lines 30-33.
CopyTest ==
    /\ pc = "CORE_STAGED"
    /\ \E fault \in Faults :
         LET r == copy(build[libtestsuite_file], pkgKind,
                       pkg[libtestsuite_file], fault)
         IN  /\ pkg' = [pkg EXCEPT ![libtestsuite_file] = r.dst]
             /\ copied' = IF r.ok THEN copied \cup {libtestsuite_file}
                                  ELSE copied
             /\ pc' = IF r.ok THEN "STAGED" ELSE "FAILED"
             /\ failedAt' = IF r.ok THEN "none" ELSE "copy_test"
    /\ UNCHANGED <<globals, buildFs, pkgKind, configureExit, compileExit,
                   configureCalls, compileCalls, superCalls, history>>

\* Delegate placed before the copies.
DelegateEarly ==
    /\ pc \in {"BUILT", "STAGED"}
    /\ superCalls' = superCalls + 1
    /\ pc' = "DELEGATED"
    /\ UNCHANGED <<globals, buildFs, pkgFs, failedAt, configureExit,
                   compileExit, configureCalls, compileCalls, copied, history>>

\* Line 36: control passes to build_py.run.
Delegate ==
    /\ pc = "STAGED"
    /\ superCalls' = superCalls + 1
    /\ pc' = "DELEGATED"
    /\ UNCHANGED <<globals, buildFs, pkgFs, failedAt, configureExit,
                   compileExit, configureCalls, compileCalls, copied, history>>

Terminal == {"DELEGATED", "FAILED"}

\* The script is invoked again: a new process evaluates lines 9-11 and
\* enters run() on the filesystem the previous invocation left.
Setup ==
    /\ pc \in Terminal
    /\ ext' = Ext(platform)
    /\ libopentrustregion_file' = LibOpenTrustRegionFile(ext')
    /\ libtestsuite_file' = LibTestsuiteFile(ext')
    /\ pc' = "START"
    /\ failedAt' = "none"
    /\ configureExit' = <<>>
    /\ compileExit' = <<>>
    /\ configureCalls' = 0
    /\ compileCalls' = 0
    /\ copied' = {}
    /\ superCalls' = 0
    /\ pkgAtStart' = pkg
    /\ prevCopied' = copied
    /\ UNCHANGED <<platform, buildFs, pkgFs>>

Next ==
    \/ MakeDirs
    \/ ConfigureStart
    \/ ConfigureExit
    \/ CompileStart
    \/ CompileExit
    \/ CopyCore
    \/ CopyTest
    \/ Delegate
    \/ Setup

Spec == Init /\ [][Next]_vars

\* The steps of one invocation; at most one of them is enabled at a time.
RunStep ==
    \/ MakeDirs
    \/ ConfigureStart
    \/ ConfigureExit
    \/ CompileStart
    \/ CompileExit
    \/ CopyCore
    \/ CopyTest
    \/ Delegate

\* run() is sequential code that keeps executing: every statement that can
\* run does.  The two cmake processes are taken to exit.  Nothing obliges
\* anyone to invoke the script again.
FairSpec == Spec /\ WF_vars(RunStep)

----------------------------------------------------------------------------
\* Shapes of the state, and names the properties below use.

Libs == {libopentrustregion_file, libtestsuite_file}

PcValues == {"START", "DIR_READY", "CONFIGURING", "CONFIGURED", "COMPILING",
             "BUILT", "CORE_STAGED", "STAGED", "DELEGATED", "FAILED"}

TypeOK ==
    /\ platform \in Platforms
    /\ ext \in {"dylib", "so"}
    /\ buildKind \in {"absent", "dir", "file"}
    /\ DOMAIN build = BuildNames
    /\ \A n \in BuildNames : build[n] \in Entries
    /\ pkgKind \in {"absent", "dir"}
    /\ DOMAIN pkg = PkgNames
    /\ \A n \in PkgNames :
         pkg[n] \in Entries \cup {Dir(c) : c \in Contents} \cup {File(NoData)}
    /\ pc \in PcValues
    /\ failedAt \in {"none", "makedirs", "configure", "compile",
                      "copy_core", "copy_test"}
    /\ configureCalls \in 0 .. 1
    /\ compileCalls \in 0 .. 1
    /\ superCalls \in 0 .. 1
    /\ copied \subseteq Libs
    /\ prevCopied \subseteq Libs

\* Some exit status in the log is not 0.
NonZero(log) == \E i \in 1 .. Len(log) : log[i] # 0

----------------------------------------------------------------------------
\* C1: in any invocation, once cmake .. has exited with a status other than
\* 0, cmake --build . has not been launched (its count is 0), no library
\* has been copied and the package directory is as it was.
C1_ConfigureFailureStopsRun ==
    NonZero(configureExit) =>
        /\ compileCalls = 0
        /\ compileExit = <<>>
        /\ copied = {}
        /\ pkg = pkgAtStart
        /\ pc = "FAILED"

C1_Witness ==
    /\ pc = "FAILED"
    /\ configureCalls = 1
    /\ NonZero(configureExit)
    /\ buildKind = "dir"

\* C2: in any invocation, once cmake --build . has exited with a status
\* other than 0, the run has failed, no library has been copied and the
\* package directory holds exactly what it held when the invocation began.
C2_CompileFailureLeavesPackage ==
    NonZero(compileExit) =>
        /\ pc = "FAILED"
        /\ failedAt = "compile"
        /\ copied = {}
        /\ pkg = pkgAtStart
        /\ superCalls = 0

\* The compile step failed after writing both libraries to the build
\* directory, and the package directory, which had neither, still has
\* neither.
C2_Witness ==
    /\ NonZero(compileExit)
    /\ \A n \in Libs : build[n].kind = "file"
    /\ pkgKind = "dir"
    /\ \A n \in Libs : pkgAtStart[n] = Absent /\ pkg[n] = Absent

\* C3: once any statement of run() before super().run() has raised, the
\* invocation is in the failure state and super().run() has not been called;
\* and super().run() is called only when every step before it succeeded.
C3_FailureNeverDelegates ==
    /\ (failedAt # "none" \/ NonZero(configureExit) \/ NonZero(compileExit))
          => (pc = "FAILED" /\ superCalls = 0)
    /\ pc = "FAILED" => (failedAt # "none" /\ superCalls = 0)
    /\ superCalls > 0 =>
          /\ buildKind = "dir"
          /\ configureExit = <<0>>
          /\ compileExit = <<0>>
          /\ copied = Libs

\* The last step before super().run(), the copy of the test-suite library,
\* failed after everything before it succeeded.
C3_Witness ==
    /\ pc = "FAILED"
    /\ failedAt = "copy_test"
    /\ copied = {libopentrustregion_file}
    /\ superCalls = 0

\* C4: when no step fails, the invocation reaches DELEGATED: every
\* invocation ends, it ends in failure only when a statement raised, and
\* super().run() is called once, from STAGED, with both libraries copied
\* after a configure and a compile that exited with 0.
C4_SuccessDelegatesOnce ==
    /\ [](superCalls = 1 <=> pc = "DELEGATED")
    /\ [](superCalls \in {0, 1})
    /\ [](pc = "DELEGATED" =>
            /\ failedAt = "none"
            /\ buildKind = "dir"
            /\ configureExit = <<0>>
            /\ compileExit = <<0>>
            /\ copied = Libs)
    /\ [](pc = "FAILED" => failedAt # "none")
    /\ [][superCalls' > superCalls => (pc = "STAGED" /\ copied = Libs)]_vars
    /\ [][pc = "STAGED" => pc' = "DELEGATED"]_vars
    /\ [](pc \notin Terminal => <>(pc \in Terminal))

C4_Witness ==
    /\ pc = "DELEGATED"
    /\ superCalls = 1
    /\ copied = Libs
    /\ configureExit = <<0>>
    /\ compileExit = <<0>>

----------------------------------------------------------------------------
\* The path of one invocation.

Path == <<"START", "DIR_READY", "CONFIGURING", "CONFIGURED", "COMPILING",
          "BUILT", "CORE_STAGED", "STAGED", "DELEGATED">>

\* The place of a position on the path; FAILED is not on it.
Rank(p) == CHOOSE i \in 1 .. Len(Path) : Path[i] = p

\* The state of the documented state machine a position belongs to: while
\* cmake runs, or between the two copies, the step is not complete yet.
Stage(p) ==
    CASE p \in {"DIR_READY", "CONFIGURING"} -> "DIR_READY"
      [] p \in {"CONFIGURED", "COMPILING"} -> "CONFIGURED"
      [] p \in {"BUILT", "CORE_STAGED"} -> "BUILT"
      [] OTHER -> p

StagePath == <<"START", "DIR_READY", "CONFIGURED", "BUILT", "STAGED", "DELEGATED">>

StageRank(p) == CHOOSE i \in 1 .. Len(StagePath) : StagePath[i] = Stage(p)

\* C5: an invocation moves along START, DIR_READY, CONFIGURED, BUILT,
\* STAGED, DELEGATED one step at a time or goes to the failure state; it
\* never moves back, a terminal state is left only by a new invocation of
\* the script, and a step has begun only if the one before it succeeded.
C5_LinearPath ==
    /\ [][pc \notin Terminal =>
            \/ pc' = "FAILED"
            \/ /\ pc' # "FAILED"
               /\ Rank(pc') = Rank(pc) + 1
               /\ StageRank(pc') \in {StageRank(pc), StageRank(pc) + 1}]_vars
    /\ [][(pc \in Terminal) =>
            (/\ pc' = "START"
             /\ configureCalls' = 0
             /\ compileCalls' = 0
             /\ copied' = {}
             /\ superCalls' = 0)]_vars
    /\ [](pc \notin {"START", "FAILED"} => buildKind = "dir")
    /\ [](configureCalls > 0 => buildKind = "dir")
    /\ [](compileCalls > 0 => configureExit = <<0>>)
    /\ [](copied # {} => compileExit = <<0>>)
    /\ [](superCalls > 0 => copied = Libs)

\* A failure at the first copy, after a compile that succeeded.
C5_Witness ==
    /\ pc = "FAILED"
    /\ failedAt = "copy_core"
    /\ compileExit = <<0>>
    /\ copied = {}

\* C6 as stated: once both copies are done, each library is in the package
\* directory as a file under its own name, identical to the one in the
\* build directory.
C6_StagedIdentical ==
    pc \in {"STAGED", "DELEGATED"} =>
        \A n \in Libs : pkg[n].kind = "file" /\ pkg[n] = build[n]

\* C6, amended: the same for every library whose destination path was not a
\* directory when the invocation began.
C6_StagedIdenticalUnlessDirectory ==
    pc \in {"STAGED", "DELEGATED"} =>
        \A n \in Libs :
            /\ build[n].kind = "file"
            /\ pkgAtStart[n].kind # "dir" =>
                  (pkg[n].kind = "file" /\ pkg[n] = build[n])

\* On a platform with suffix so, both libraries, of different content, were
\* copied into a package directory that had neither.
C6_Witness ==
    /\ pc = "STAGED"
    /\ ext = "so"
    /\ \A n \in Libs : pkgAtStart[n] = Absent /\ pkg[n] = build[n]
    /\ build[libopentrustregion_file] = File(1)
    /\ build[libtestsuite_file] = File(2)

\* C7 as stated: a library copied by this invocation and by the one before
\* it is, at its destination, a file with the content of this invocation's
\* source, whatever the destination held.
C7_LastWriteWins ==
    \A n \in Libs :
        (n \in copied /\ n \in prevCopied) => pkg[n] = File(build[n].data)

\* C7, amended: the same when the destination path is not a directory.
C7_LastWriteWinsUnlessDirectory ==
    \A n \in Libs :
        (n \in copied /\ n \in prevCopied /\ pkgAtStart[n].kind # "dir") =>
            (build[n].kind = "file" /\ pkg[n] = File(build[n].data))

\* The core library was copied with content 1 by the previous invocation
\* and with content 2 by this one.
C7_Witness ==
    /\ libopentrustregion_file \in copied
    /\ libopentrustregion_file \in prevCopied
    /\ pkgAtStart[libopentrustregion_file] = File(1)
    /\ build[libopentrustregion_file] = File(2)
    /\ pkg[libopentrustregion_file] = File(2)

\* C8: os.makedirs(build_dir, exist_ok=True) applied to its own result
\* succeeds and changes nothing; and in an invocation that finds the build
\* directory, line 19 raises nothing and leaves the directory and what is
\* in it as they were.
C8_MakeDirsIdempotent ==
    /\ [](\A d1, d2 \in BOOLEAN :
            LET r1 == makedirs(buildKind, build, d1)
                r2 == makedirs(r1.kind, r1.files, d2)
            IN  r1.ok => /\ r1.kind = "dir"
                         /\ r2.ok
                         /\ r2.kind = r1.kind
                         /\ r2.files = r1.files)
    /\ [][(pc = "START" /\ buildKind = "dir") =>
            (pc' = "DIR_READY" /\ UNCHANGED buildFs)]_vars

\* Line 19 has run for the second time on a build directory that the
\* invocation before left with a cache and a library in it.
C8_Witness ==
    /\ pc = "DIR_READY"
    /\ prevCopied # {}
    /\ build[CacheName] = File(1)
    /\ build[libopentrustregion_file].kind = "file"

\* C9: cmake is launched, and runs, only with the build directory there;
\* the build directory changes only from absent to present, at line 19; and
\* no statement of run() changes what is inside an existing build
\* directory (only the cmake processes write there).
C9_BuildDirKept ==
    /\ []((pc \in {"CONFIGURING", "COMPILING"}
            \/ configureCalls > 0 \/ compileCalls > 0) => buildKind = "dir")
    /\ [][buildKind' # buildKind =>
            (pc = "START" /\ buildKind = "absent" /\ buildKind' = "dir")]_vars
    /\ [][(buildKind = "dir" /\ pc \notin {"CONFIGURING", "COMPILING"}) =>
            build' = build]_vars

\* cmake --build . runs in a build directory that still holds the library
\* the invocation before had built and copied.
C9_Witness ==
    /\ pc = "COMPILING"
    /\ prevCopied = Libs
    /\ buildKind = "dir"
    /\ build[libopentrustregion_file].kind = "file"

\* C10: ext is dylib when sys.platform is darwin and so for every other
\* identifier; the resolver yields one of the two suffixes for every
\* identifier.
C10_PlatformSuffix ==
    /\ platform = "darwin" => ext = "dylib"
    /\ platform # "darwin" => ext = "so"
    /\ \A p \in Platforms :
         /\ Ext(p) \in {"dylib", "so"}
         /\ Ext(p) = "dylib" <=> p = "darwin"

\* A second process has resolved the suffix on a platform the script does
\* not name.
C10_Witness ==
    /\ platform = "unknown"
    /\ ext = "so"
    /\ pc = "START"
    /\ prevCopied = Libs

\* C11: when the copy of the test-suite library fails after the copy of the
\* core library succeeded, the invocation has failed and the core library
\* is still at its destination with the content copied, while the
\* destination of the test-suite library is whatever the failing copy left
\* (untouched, incomplete, or already written); an entry of the package
\* directory is never removed and changes only in the copy of that library,
\* so no step undoes the work of an earlier one.
C11_NoRollback ==
    /\ [](failedAt = "copy_test" =>
            /\ pc = "FAILED"
            /\ superCalls = 0
            /\ copied = {libopentrustregion_file}
            /\ pkg[libopentrustregion_file].kind \in {"file", "dir"}
            /\ pkg[libopentrustregion_file].data
                  = build[libopentrustregion_file].data
            /\ pkg[libtestsuite_file]
                  \in {pkgAtStart[libtestsuite_file],
                       Written(pkgAtStart[libtestsuite_file], NoData),
                       Written(pkgAtStart[libtestsuite_file],
                               build[libtestsuite_file].data)})
    /\ [][\A n \in PkgNames :
            /\ pkg[n].kind # "absent" => pkg'[n].kind # "absent"
            /\ pkg'[n] # pkg[n] =>
                 \/ n = libopentrustregion_file /\ pc = "BUILT"
                 \/ n = libtestsuite_file /\ pc = "CORE_STAGED"]_vars
    /\ [][(pc = "CORE_STAGED" /\ pc' = "FAILED") =>
            pkg'[libopentrustregion_file] = pkg[libopentrustregion_file]]_vars

\* The package directory had neither library; the core library was copied,
\* the copy of the test-suite library failed, and the core library stays.
C11_Witness ==
    /\ pc = "FAILED"
    /\ failedAt = "copy_test"
    /\ pkgAtStart[libopentrustregion_file] = Absent
    /\ pkgAtStart[libtestsuite_file] = Absent
    /\ pkg[libopentrustregion_file] = File(1)
    /\ pkg[libtestsuite_file] = Absent

\* C12: after a compile that exited with 0, a library that is not a regular
\* file in the build directory makes its copy raise: the invocation does not
\* get past that copy, the destination is untouched, the failure is that of
\* a copy and super().run() is not called.
C12_MissingArtifactFailsAtCopy ==
    /\ [][(pc = "BUILT" /\ build[libopentrustregion_file].kind # "file") =>
            (pc' = "FAILED" /\ failedAt' = "copy_core" /\ pkg' = pkg)]_vars
    /\ [][(pc = "CORE_STAGED" /\ build[libtestsuite_file].kind # "file") =>
            (pc' = "FAILED" /\ failedAt' = "copy_test" /\ pkg' = pkg)]_vars
    /\ []((compileExit = <<0>>
            /\ \E n \in Libs : build[n].kind # "file") =>
            /\ pc \in {"BUILT", "CORE_STAGED", "FAILED"}
            /\ pc = "FAILED" => failedAt \in {"copy_core", "copy_test"}
            /\ \A n \in Libs : build[n].kind # "file" => n \notin copied
            /\ superCalls = 0)

\* The compile step exited with 0 and left no test-suite library: the core
\* library was copied and the second copy failed.
C12_Witness ==
    /\ compileExit = <<0>>
    /\ build[libopentrustregion_file].kind = "file"
    /\ build[libtestsuite_file] = Absent
    /\ libopentrustregion_file \in copied
    /\ pc = "FAILED"
    /\ failedAt = "copy_test"

\* C13: an exit status other than 0, of either cmake process, fails the
\* invocation at once, and an invocation launches each of the two processes
\* at most once and sees at most one exit of each.
C13_NonZeroFailsNoRetry ==
    /\ configureCalls \in {0, 1}
    /\ compileCalls \in {0, 1}
    /\ Len(configureExit) <= configureCalls
    /\ Len(compileExit) <= compileCalls
    /\ \A i \in 1 .. Len(configureExit) :
         configureExit[i] # 0 => (pc = "FAILED" /\ failedAt = "configure")
    /\ \A i \in 1 .. Len(compileExit) :
         compileExit[i] # 0 => (pc = "FAILED" /\ failedAt = "compile")
    /\ (pc \in {"CONFIGURED", "COMPILING"}) => configureExit = <<0>>
    /\ (pc \in {"BUILT", "CORE_STAGED", "STAGED", "DELEGATED"}) =>
         (configureExit = <<0>> /\ compileExit = <<0>>)

\* The compile process was ended by a signal (a negative status) after a
\* configure that exited with 0; it was launched once.
C13_Witness ==
    /\ pc = "FAILED"
    /\ configureExit = <<0>>
    /\ Len(compileExit) = 1
    /\ compileExit[1] < 0
    /\ compileCalls = 1

\* C14: when os.makedirs raises (something that is not a directory is at
\* the path, or the directory may not be created), the invocation has
\* failed with the build path as it was, no cmake process has been launched,
\* nothing has been copied and super().run() has not been called; a later
\* step is reached only with the build directory there.
C14_MakeDirsFailureStopsRun ==
    /\ [](failedAt = "makedirs" =>
            /\ pc = "FAILED"
            /\ buildKind \in {"absent", "file"}
            /\ configureCalls = 0
            /\ compileCalls = 0
            /\ configureExit = <<>>
            /\ compileExit = <<>>
            /\ copied = {}
            /\ pkg = pkgAtStart
            /\ superCalls = 0)
    /\ [][(pc = "START" /\ buildKind = "file") =>
            (pc' = "FAILED" /\ failedAt' = "makedirs" /\ UNCHANGED buildFs)]_vars
    /\ [][(pc = "START" /\ pc' = "FAILED") =>
            (failedAt' = "makedirs" /\ UNCHANGED buildFs)]_vars
    /\ [][(pc = "START" /\ pc' = "DIR_READY") => buildKind' = "dir"]_vars

\* A regular file is where the build directory should be.
C14_Witness ==
    /\ pc = "FAILED"
    /\ failedAt = "makedirs"
    /\ buildKind = "file"
    /\ configureCalls = 0

\* C15: no step changes an entry of the package directory other than the
\* two library names, nor the package directory itself; an entry that
\* differs from what it was when the invocation began is one of the two
\* libraries, and the invocation has reached its copy.
C15_OnlyLibraryNamesWritten ==
    /\ [][/\ pkgKind' = pkgKind
           /\ DOMAIN pkg' = DOMAIN pkg
           /\ \A n \in PkgNames \ Libs : pkg'[n] = pkg[n]]_vars
    /\ [](\A n \in PkgNames :
            pkg[n] # pkgAtStart[n] =>
              /\ n \in Libs
              /\ n \in copied \/ failedAt \in {"copy_core", "copy_test"})
    /\ [](pkg[InitName] = pkgAtStart[InitName])

\* Both libraries were written over older ones and __init__.py is as it
\* was.
C15_Witness ==
    /\ pc = "STAGED"
    /\ \A n \in Libs : pkgAtStart[n].kind = "file" /\ pkg[n] # pkgAtStart[n]
    /\ pkg[InitName] = File(1)

\* C16: while a cmake process runs, the invocation leaves its position only
\* by the exit of that process, and nothing after the process has begun;
\* with processes that exit, every invocation reaches DELEGATED or FAILED.
C16_BlocksUntilExit ==
    /\ [][(pc = "CONFIGURING" /\ pc' # pc) =>
            Len(configureExit') = Len(configureExit) + 1]_vars
    /\ [][(pc = "COMPILING" /\ pc' # pc) =>
            Len(compileExit') = Len(compileExit) + 1]_vars
    /\ [](pc = "CONFIGURING" =>
            /\ configureExit = <<>>
            /\ compileCalls = 0
            /\ copied = {}
            /\ pkg = pkgAtStart
            /\ superCalls = 0)
    /\ [](pc = "COMPILING" =>
            /\ compileExit = <<>>
            /\ copied = {}
            /\ pkg = pkgAtStart
            /\ superCalls = 0)
    /\ (pc \in {"START", "CONFIGURING", "COMPILING"}) ~> (pc \in Terminal)

\* cmake --build . is running after a configure that exited with 0.
C16_Witness ==
    /\ pc = "COMPILING"
    /\ configureExit = <<0>>
    /\ compileExit = <<>>
    /\ compileCalls = 1

\* C17: an invocation copies the core library first: what it has copied is
\* nothing, the core library alone, or both; the copy of the test-suite
\* library is tried, and its destination written, only from the position
\* after a successful copy of the core library.
C17_CoreFirst ==
    /\ [](copied \in {{}, {libopentrustregion_file}, Libs})
    /\ [](libtestsuite_file \in copied => libopentrustregion_file \in copied)
    /\ [](failedAt = "copy_test" => libopentrustregion_file \in copied)
    /\ [](pkg[libtestsuite_file] # pkgAtStart[libtestsuite_file] =>
            libopentrustregion_file \in copied)
    /\ [][pkg'[libtestsuite_file] # pkg[libtestsuite_file] =>
            (pc = "CORE_STAGED" /\ libopentrustregion_file \in copied)]_vars
    /\ [][pkg'[libopentrustregion_file] # pkg[libopentrustregion_file] =>
            (pc = "BUILT" /\ copied = {})]_vars

\* Between the two copies: the core library is written, the test-suite
\* library, ready in the build directory, is not yet.
C17_Witness ==
    /\ pc = "CORE_STAGED"
    /\ copied = {libopentrustregion_file}
    /\ pkg[libopentrustregion_file] # pkgAtStart[libopentrustregion_file]
    /\ pkg[libtestsuite_file] = pkgAtStart[libtestsuite_file]
    /\ build[libtestsuite_file].kind = "file"
    /\ build[libtestsuite_file] # pkg[libtestsuite_file]

\* C18: no step makes the package directory; while it is absent nothing is
\* copied, the first copy fails, the second is not tried and super().run()
\* is not called.
C18_PackageDirNeverCreated ==
    /\ [][pkgKind' = pkgKind]_vars
    /\ [](pkgKind = "absent" =>
            /\ copied = {}
            /\ pkg = pkgAtStart
            /\ \A n \in PkgNames : pkg[n] = Absent
            /\ pc \notin {"CORE_STAGED", "STAGED", "DELEGATED"}
            /\ failedAt # "copy_test"
            /\ superCalls = 0)
    /\ [][(pc = "BUILT" /\ pkgKind = "absent") =>
            (pc' = "FAILED" /\ failedAt' = "copy_core" /\ UNCHANGED pkgFs)]_vars

\* Both libraries were built, the package directory is not there, and the
\* first copy failed.
C18_Witness ==
    /\ pc = "FAILED"
    /\ failedAt = "copy_core"
    /\ pkgKind = "absent"
    /\ compileExit = <<0>>
    /\ \A n \in Libs : build[n].kind = "file"

\* The elements of a list.
Range(seq) == {seq[i] : i \in 1 .. Len(seq)}

\* C19: the suffix and the two names do not change once set, both names end
\* in that suffix, a library copied is at its destination under the name it
\* has in the build directory, and the names declared as package data are
\* the two names the copies write, no other.
C19_SharedSuffixAndNames ==
    /\ [][ext' = ext
           /\ libopentrustregion_file' = libopentrustregion_file
           /\ libtestsuite_file' = libtestsuite_file]_vars
    /\ [](libopentrustregion_file = "libopentrustregion." \o ext)
    /\ [](libtestsuite_file = "libtestsuite." \o ext)
    /\ [](Cardinality(Range(package_data.pyopentrustregion)) = 2)
    /\ [](copied \subseteq Range(package_data.pyopentrustregion))
    /\ [](pc \in {"STAGED", "DELEGATED"} =>
            copied = Range(package_data.pyopentrustregion))
    /\ [](\A n \in copied :
            /\ n \in DOMAIN build
            /\ n \in DOMAIN pkg
            /\ build[n].kind = "file"
            /\ pkg[n].data = build[n].data)
    /\ [](\A n \in PkgNames :
            pkg[n] # pkgAtStart[n] =>
                n \in Range(package_data.pyopentrustregion))

\* On darwin, for the second time, both libraries were copied under their
\* dylib names.
C19_Witness ==
    /\ platform = "darwin"
    /\ pc = "STAGED"
    /\ copied = {"libopentrustregion.dylib", "libtestsuite.dylib"}
    /\ prevCopied = copied

====
